---- MODULE Spec2Model ----
(***************************************************************************)
(* The MICT cycle engine (class MICT of mict-framework.js): a fixed,       *)
(* wrapping sequence of named stages, a state value threaded through the   *)
(* stage functions, and an optional setInterval timer that drives          *)
(* nextStage().                                                            *)
(***************************************************************************)
EXTENDS Integers, Sequences, FiniteSets, TLC

(* ------------------------------ bounds -------------------------------- *)

\* Largest count a state object reaches: an advance that would increment
\* beyond it is not taken.
MaxCount == 3

\* The number of successful advances since index 0 is counted exactly below
\* this bound and modulo the number of stages from there on.
MaxAdvances == 9

\* The limit field of the small state objects (the example's limit is 10).
SmallLimit == 2

\* limit of the counter example's initial state.
ExampleLimit == 10

(* --------------------------- JavaScript values ------------------------ *)

Undefined == [tag |-> "undefined"]

Null == [tag |-> "null"]

Num(n) == [tag |-> "number", n |-> n]

\* A state object {count, limit} as in the counter example.
Obj(c, l) == [tag |-> "object", count |-> c, limit |-> l]

\* A state object {data} as in the async example.
DataObj(d) == [tag |-> "object", data |-> d]

\* The Promise an async function returns; it resolves to v once the
\* asynchronous work of the function has completed.
Promise(v) == [tag |-> "promise", resolves |-> v]

\* The handle setInterval returns.
TimerId(i) == [tag |-> "timer", id |-> i]

\* ToBoolean, as used by `if (x)`, `!x` and `a || b`.
Truthy(v) ==
    CASE v.tag = "undefined" -> FALSE
      [] v.tag = "null" -> FALSE
      [] v.tag = "number" -> v.n # 0
      [] OTHER -> TRUE

\* a || b
JsOr(a, b) == IF Truthy(a) THEN a ELSE b

(* ------------------------------ stage functions ----------------------- *)

\* An Error object, by the name of its class.
Error(name) == [tag |-> "error", name |-> name]

\* The result of calling a function: it threw error, or it returned value.
Returned(v) == [threw |-> FALSE, value |-> v, error |-> Undefined]

\* Reading a property of undefined or null throws a TypeError.
Threw == [threw |-> TRUE, value |-> Undefined, error |-> Error("TypeError")]

\* Reading state.count throws a TypeError when state is undefined or null.
HasProperties(state) == state.tag \notin {"undefined", "null"}

\* (state) => state
identity(state) == Returned(state)

\* (state) => ({ ...state, count: state.count + 1 })
increment(state) ==
    IF HasProperties(state)
    THEN Returned(Obj(state.count + 1, state.limit))
    ELSE Threw

\* (state) => { if (state.count >= state.limit) log(...); return state; }
checking(state) ==
    IF HasProperties(state) THEN Returned(state) ELSE Threw

\* (state) => state.count >= state.limit ? { ...state, count: 0 } : state
transformation(state) ==
    IF HasProperties(state)
    THEN IF state.count >= state.limit
         THEN Returned(Obj(0, state.limit))
         ELSE Returned(state)
    ELSE Threw

\* response.data of the async example's fetchData().
FetchedData == "Some data from an API"

\* { ...state, data: response.data }: the own properties of state, and data.
WithData(state) ==
    IF state.tag = "object"
    THEN [data |-> FetchedData] @@ state
    ELSE DataObj(FetchedData)

\* async (state) => { const response = await fetchData();
\*                    return { ...state, data: response.data }; }
\* The call returns a pending Promise and never throws.
fetching(state) == Returned(Promise(WithData(state)))

\* (state) => { console.log(state); }: a stage function that returns no
\* value.
observing(state) == Returned(Undefined)

\* A stage function that fails on every invocation.
throwing(state) == [Threw EXCEPT !.error = Error("Error")]

\* this.stageFunctions[currentStage](this.currentState), by the name of the
\* function stored under the key.
CallStageFunction(fn, state) ==
    CASE fn = "identity" -> identity(state)
      [] fn = "increment" -> increment(state)
      [] fn = "checking" -> checking(state)
      [] fn = "transformation" -> transformation(state)
      [] fn = "throwing" -> throwing(state)
      [] fn = "fetching" -> fetching(state)
      [] fn = "observing" -> observing(state)

(* ------------------------------ configurations ------------------------ *)

StageNames == {"Mapping", "Iteration", "Checking", "Transformation"}

\* stageFunctions with no key: every lookup yields "undefined".
NoStageFunctions == [s \in StageNames |-> "undefined"]

MICTStages == <<"Mapping", "Iteration", "Checking", "Transformation">>

\* counter-example.js
CounterConfig ==
    [stages |-> MICTStages,
     initialState |-> Obj(0, SmallLimit),
     stageFunctions |-> [Mapping |-> "identity", Iteration |-> "increment",
                         Checking |-> "checking",
                         Transformation |-> "transformation"],
     interval |-> Undefined,
     errorHandler |-> FALSE]

\* A configuration with an errorHandler and a period, whose Iteration
\* function always throws.
FailingConfig ==
    [stages |-> MICTStages,
     initialState |-> Obj(0, ExampleLimit),
     stageFunctions |-> [NoStageFunctions EXCEPT !["Mapping"] = "identity",
                                                 !["Iteration"] = "throwing"],
     interval |-> Num(1000),
     errorHandler |-> TRUE]

\* The same failing Iteration function, with no errorHandler.
FailingNoHandlerConfig ==
    [stages |-> MICTStages,
     initialState |-> Obj(0, ExampleLimit),
     stageFunctions |-> [NoStageFunctions EXCEPT !["Iteration"] = "throwing"],
     interval |-> Num(0),
     errorHandler |-> FALSE]

\* No stageFunctions at all, and a negative default interval.
BareConfig ==
    [stages |-> MICTStages,
     initialState |-> Obj(0, ExampleLimit),
     stageFunctions |-> NoStageFunctions,
     interval |-> Num(-1),
     errorHandler |-> FALSE]

\* Only Iteration has a function, the counter example's increment.
IncrementConfig ==
    [stages |-> MICTStages,
     initialState |-> Obj(0, ExampleLimit),
     stageFunctions |-> [NoStageFunctions EXCEPT !["Iteration"] = "increment"],
     interval |-> Undefined,
     errorHandler |-> TRUE]

\* A single stage.
SingleStageConfig ==
    [stages |-> <<"Mapping">>,
     initialState |-> Obj(0, ExampleLimit),
     stageFunctions |-> [NoStageFunctions EXCEPT !["Mapping"] = "increment"],
     interval |-> Num(500),
     errorHandler |-> FALSE]

\* A stage name that occurs twice in the sequence.
RepeatedStageConfig ==
    [stages |-> <<"Mapping", "Iteration", "Mapping">>,
     initialState |-> Obj(0, ExampleLimit),
     stageFunctions |-> [NoStageFunctions EXCEPT !["Mapping"] = "increment"],
     interval |-> Undefined,
     errorHandler |-> FALSE]

\* async-example.js: the Mapping function is async.
AsyncConfig ==
    [stages |-> MICTStages,
     initialState |-> DataObj(Null),
     stageFunctions |-> [Mapping |-> "fetching", Iteration |-> "identity",
                         Checking |-> "identity",
                         Transformation |-> "identity"],
     interval |-> Undefined,
     errorHandler |-> FALSE]

\* Mapping increments; the Iteration function returns no value.
NoReturnConfig ==
    [stages |-> MICTStages,
     initialState |-> Obj(0, ExampleLimit),
     stageFunctions |-> [NoStageFunctions EXCEPT !["Mapping"] = "increment",
                                                 !["Iteration"] = "observing"],
     interval |-> Undefined,
     errorHandler |-> FALSE]

Configs ==
    {CounterConfig, FailingConfig, FailingNoHandlerConfig, BareConfig,
     IncrementConfig, SingleStageConfig, RepeatedStageConfig, AsyncConfig,
     NoReturnConfig}

\* A configuration object: its fields, whether its stages field is an
\* Array, the typeof of its updateUI field, and the order in which the keys
\* of its stageFunctions were inserted (a key whose value is "undefined" is
\* not a key of the object).
ConfigObject(c) ==
    [tag |-> "object", fields |-> c, stagesIsArray |-> TRUE,
     updateUI |-> "function", keys |-> MICTStages]

\* The arguments of the constructor: the configurations above, and ones
\* that are missing, not an object, or have a field the constructor rejects.
ConstructorArguments ==
    {ConfigObject(c) : c \in Configs} \cup
    {Undefined, Null, Num(5),
     [ConfigObject(BareConfig) EXCEPT !.stagesIsArray = FALSE],
     ConfigObject([BareConfig EXCEPT !.stages = <<>>]),
     [ConfigObject(BareConfig) EXCEPT !.updateUI = "undefined"],
     [ConfigObject(CounterConfig) EXCEPT !.updateUI = "string"],
     ConfigObject([SingleStageConfig EXCEPT
                       !.stageFunctions["Iteration"] = "identity"]),
     ConfigObject([BareConfig EXCEPT
                       !.stageFunctions["Checking"] = "notCallable"]),
     ConfigObject([SingleStageConfig EXCEPT
                       !.stageFunctions["Mapping"] = "notCallable",
                       !.stageFunctions["Iteration"] = "identity"]),
     [ConfigObject([SingleStageConfig EXCEPT
                        !.stageFunctions["Mapping"] = "notCallable",
                        !.stageFunctions["Iteration"] = "identity"])
          EXCEPT !.keys = <<"Iteration", "Mapping", "Checking",
                            "Transformation">>]}

\* The arguments of setState().
SetStateInputs == {Undefined, Obj(1, SmallLimit)}

\* The arguments of startCycle(): none, 0, a negative number, two periods.
IntervalInputs == {Undefined, Num(0), Num(-1), Num(500), Num(1000)}

(* ------------------------------ state --------------------------------- *)

VARIABLES
    argument,           \* the argument of the constructor
    constructorError,   \* the message of the Error the constructor threw
    config,             \* the fields of the configuration object
    stages,             \* this.stages
    stageFunctions,     \* this.stageFunctions
    errorHandler,       \* this.errorHandler is set
    interval,           \* this.interval
    initialState,       \* this.initialState
    currentState,       \* this.currentState
    currentStageIndex,  \* this.currentStageIndex (0-based)
    previousState,      \* this.previousState
    intervalId,         \* this.intervalId
    timers,             \* the active setInterval timers: [id, delay]
    lastCall,           \* the last call made on the engine: [op, arg]
    uiCalls,            \* the updateUI invocations of the last call
    errorCalls,         \* the errorHandler invocations of the last call
    handlerCalls,       \* the stage function invocations of the last call
    diagnostics,        \* the console.warn / console.error of the last call
    thrown,             \* the exception the last call threw to its caller
    advances,           \* successful advances since index was last set to 0
    exact,              \* advances is the exact number, not a residue
    pristine,           \* no setState() or reset() since construction
    lastHandlerInput,   \* the state given to the stage function run last
    lastReturnedInput   \* the state given to the stage function that
                        \* returned last, since construction or reset()

configVars == <<argument, constructorError, config, stages, stageFunctions, errorHandler, interval,
                initialState>>

engineVars == <<currentState, currentStageIndex, previousState, intervalId>>

callVars == <<lastCall, uiCalls, errorCalls, handlerCalls, diagnostics,
              thrown>>

handlerHistory == <<lastHandlerInput, lastReturnedInput>>

historyVars == <<advances, exact, pristine, handlerHistory>>

vars == <<configVars, engineVars, timers, callVars, historyVars>>

(* ------------------------------ constructor --------------------------- *)

\* The order in which for...in visits the keys of stageFunctions: the order
\* in which they were inserted into the object.
KeyOrder(a) == a.keys

\* this.stages.includes(stageName)
Includes(seq, stageName) == \E i \in DOMAIN seq : seq[i] = stageName

\* The positions in KeyOrder of the keys the validation loop rejects.
RejectedKeys(a) ==
    {i \in DOMAIN KeyOrder(a) :
         /\ a.fields.stageFunctions[KeyOrder(a)[i]] # "undefined"
         /\ \/ ~Includes(a.fields.stages, KeyOrder(a)[i])
            \/ a.fields.stageFunctions[KeyOrder(a)[i]] = "notCallable"}

\* The loop over the keys of stageFunctions throws at the first key it
\* rejects: for a name that is no stage, else for a value that is no function.
ValidateStageFunctions(a) ==
    IF RejectedKeys(a) = {}
    THEN "none"
    ELSE LET first == CHOOSE i \in RejectedKeys(a) :
                          \A j \in RejectedKeys(a) : i <= j
         IN IF ~Includes(a.fields.stages, KeyOrder(a)[first])
            THEN "Invalid stage name in stageFunctions"
            ELSE "stageFunctions[stageName] must be a function"

\* The loop does not check that the key is a stage name.
ValidateSkipsStageNames(a) ==
    IF ~Truthy(a) \/ a.tag # "object"
    THEN "MICT constructor requires a configuration object"
    ELSE IF ~a.stagesIsArray \/ Len(a.fields.stages) = 0
    THEN "MICT configuration must include a 'stages' array"
    ELSE IF a.updateUI # "function"
    THEN "MICT configuration must include an 'updateUI' function"
    ELSE IF \E k \in StageNames : a.fields.stageFunctions[k] = "notCallable"
    THEN "stageFunctions[stageName] must be a function"
    ELSE "none"

\* The message of the Error the constructor throws for the argument a, or
\* "none".
Validate(a) ==
    IF ~Truthy(a) \/ a.tag # "object"
    THEN "MICT constructor requires a configuration object"
    ELSE IF ~a.stagesIsArray \/ Len(a.fields.stages) = 0
    THEN "MICT configuration must include a 'stages' array"
    ELSE IF a.updateUI # "function"
    THEN "MICT configuration must include an 'updateUI' function"
    ELSE ValidateStageFunctions(a)

\* The fields the constructor assigns, for a configuration that passes its
\* validation. this.initialState is not among them: reading it later yields
\* undefined.
Constructor(c) ==
    /\ config = c
    /\ stages = c.stages
    /\ currentState = c.initialState
    /\ currentStageIndex = 0
    /\ stageFunctions = c.stageFunctions
    /\ intervalId = Null
    /\ interval = JsOr(c.interval, Num(0))
    /\ errorHandler = c.errorHandler
    /\ previousState = Null
    /\ initialState = Undefined

\* No call has been made on the engine.
NoCalls ==
    [lastCall |-> [op |-> "constructor", arg |-> Undefined,
                   repeated |-> FALSE],
     uiCalls |-> <<>>, errorCalls |-> <<>>, handlerCalls |-> <<>>,
     diagnostics |-> <<>>, advances |-> 0, exact |-> TRUE, pristine |-> TRUE]

\* The engine right after new MICT(config), for the valid configurations.
Init ==
    /\ \E c \in Configs :
           /\ Validate(ConfigObject(c)) = "none"
           /\ argument = ConfigObject(c)
           /\ Constructor(c)
    /\ constructorError = "none"
    /\ timers = {}
    /\ lastCall = NoCalls.lastCall
    /\ uiCalls = <<>>
    /\ errorCalls = <<>>
    /\ handlerCalls = <<>>
    /\ diagnostics = <<>>
    /\ thrown = Undefined
    /\ advances = 0
    /\ exact = TRUE
    /\ pristine = TRUE
    /\ lastHandlerInput = Null
    /\ lastReturnedInput = Null

\* No engine exists: every field of it is unassigned.
NoEngine ==
    /\ config = Undefined
    /\ stages = <<>>
    /\ stageFunctions = Undefined
    /\ errorHandler = FALSE
    /\ interval = Undefined
    /\ initialState = Undefined
    /\ currentState = Undefined
    /\ currentStageIndex = 0
    /\ previousState = Undefined
    /\ intervalId = Undefined

\* new MICT(argument) is about to be evaluated.
ConstructorInit ==
    /\ argument \in ConstructorArguments
    /\ constructorError = "pending"
    /\ NoEngine
    /\ timers = {}
    /\ lastCall = NoCalls.lastCall
    /\ uiCalls = <<>>
    /\ errorCalls = <<>>
    /\ handlerCalls = <<>>
    /\ diagnostics = <<>>
    /\ thrown = Undefined
    /\ advances = 0
    /\ exact = TRUE
    /\ pristine = TRUE
    /\ lastHandlerInput = Null
    /\ lastReturnedInput = Null

\* new MICT(argument): the constructor throws and no engine is created, or
\* it returns the engine with its fields assigned.
Construct ==
    /\ constructorError = "pending"
    /\ constructorError' = Validate(argument)
    /\ IF Validate(argument) = "none"
       THEN /\ config' = argument.fields
            /\ stages' = argument.fields.stages
            /\ currentState' = argument.fields.initialState
            /\ currentStageIndex' = 0
            /\ stageFunctions' = argument.fields.stageFunctions
            /\ intervalId' = Null
            /\ interval' = JsOr(argument.fields.interval, Num(0))
            /\ errorHandler' = argument.fields.errorHandler
            /\ previousState' = Null
            /\ thrown' = Undefined
            /\ UNCHANGED initialState
       ELSE /\ thrown' = Error(Validate(argument))
            /\ UNCHANGED <<config, stages, stageFunctions, errorHandler,
                           interval, initialState, engineVars>>
    /\ UNCHANGED <<argument, timers, lastCall, uiCalls, errorCalls,
                   handlerCalls, diagnostics, historyVars>>

(* ------------------------------ accessors ----------------------------- *)

\* this.stages[i]: sequences are 1-based, the index is 0-based; an index
\* outside the array reads as undefined.
StageAt(i) == IF i + 1 \in DOMAIN stages THEN stages[i + 1] ELSE "undefined"

\* this.stageFunctions[stage]: a missing key reads as undefined.
StageFunction(stage) ==
    IF stage \in DOMAIN stageFunctions
    THEN stageFunctions[stage]
    ELSE "undefined"

getCurrentStage == StageAt(currentStageIndex)

getCurrentStageIndex == currentStageIndex

getPreviousState == previousState

(* ------------------------------ nextStage ----------------------------- *)

\* The index moves on without wrapping.
NextIndexNoWrap(i, n) == i + 1

\* The index skips a stage.
NextIndexSkips(i, n) == (i + 2) % n

\* The index stops at the last stage.
NextIndexSticks(i, n) == IF i + 1 < n THEN i + 1 ELSE i

\* (this.currentStageIndex + 1) % this.stages.length
NextIndex(i, n) == (i + 1) % n

\* The count of successful advances, kept exact below MaxAdvances and as a
\* residue modulo n from there on.
CountAdvance(a, n) == IF a + 1 < MaxAdvances THEN a + 1 ELSE (a + 1) % n

\* The advance would take a state object's count beyond MaxCount.
BeyondMaxCount ==
    /\ StageFunction(getCurrentStage) = "increment"
    /\ HasProperties(currentState)
    /\ currentState.count >= MaxCount

\* updateUI is notified with the stage the engine is leaving.
MoveToNextStageStale(newState) ==
    /\ currentStageIndex' = NextIndex(currentStageIndex, Len(stages))
    /\ uiCalls' = <<[state |-> newState, stage |-> StageAt(currentStageIndex)]>>
    /\ advances' = CountAdvance(advances, Len(stages))
    /\ exact' = (exact /\ advances + 1 < MaxAdvances)
    /\ thrown' = Undefined
    /\ UNCHANGED <<intervalId, timers>>

\* Move to the next stage and notify updateUI with the state newState and
\* the name of the new current stage.
MoveToNextStage(newState) ==
    /\ currentStageIndex' = NextIndex(currentStageIndex, Len(stages))
    /\ uiCalls' = <<[state |-> newState,
                     stage |-> StageAt(NextIndex(currentStageIndex, Len(stages)))]>>
    /\ advances' = CountAdvance(advances, Len(stages))
    /\ exact' = (exact /\ advances + 1 < MaxAdvances)
    /\ thrown' = Undefined
    /\ UNCHANGED <<intervalId, timers>>

\* The errorHandler invocations and console.error output of the catch block.
Reported(currentStage, error) ==
    /\ errorCalls' = IF errorHandler
                     THEN <<[error |-> error, stage |-> currentStage,
                             state |-> currentState]>>
                     ELSE <<>>
    /\ diagnostics' = IF errorHandler THEN <<>> ELSE <<"stageError">>

\* The return after the report is missing: the engine moves on.
StageFailedMovesOn(currentStage, error) ==
    /\ Reported(currentStage, error)
    /\ UNCHANGED <<currentState, previousState>>
    /\ MoveToNextStage(currentState)

\* The error is reported and thrown again to the caller of nextStage().
StageFailedRethrows(currentStage, error) ==
    /\ Reported(currentStage, error)
    /\ uiCalls' = <<>>
    /\ thrown' = error
    /\ UNCHANGED <<currentState, previousState, currentStageIndex>>
    /\ UNCHANGED <<intervalId, timers, advances, exact>>

\* The cycle is stopped when a stage function fails.
StageFailedStopsCycle(currentStage, error) ==
    /\ Reported(currentStage, error)
    /\ uiCalls' = <<>>
    /\ thrown' = Undefined
    /\ timers' = {}
    /\ intervalId' = Null
    /\ UNCHANGED <<currentState, previousState, currentStageIndex>>
    /\ UNCHANGED <<advances, exact>>

\* The state is recorded as the previous state before the function runs.
StageFailedRecordsPrevious(currentStage, error) ==
    /\ Reported(currentStage, error)
    /\ uiCalls' = <<>>
    /\ thrown' = Undefined
    /\ previousState' = currentState
    /\ UNCHANGED <<currentState, currentStageIndex>>
    /\ UNCHANGED <<intervalId, timers, advances, exact>>

\* The stage function threw error: it is caught and reported, and
\* nextStage() returns with no field assigned.
StageFailed(currentStage, error) ==
    /\ Reported(currentStage, error)
    /\ uiCalls' = <<>>
    /\ thrown' = Undefined
    /\ UNCHANGED <<currentState, previousState, currentStageIndex>>
    /\ UNCHANGED <<intervalId, timers, advances, exact>>

\* The value the stage function returned is dropped.
StageReturnedDropsResult(result) ==
    /\ previousState' = currentState
    /\ currentState' = currentState
    /\ errorCalls' = <<>>
    /\ diagnostics' = <<>>
    /\ MoveToNextStage(currentState)

\* The previous state is recorded after the new state has been assigned.
StageReturnedRecordsNew(result) ==
    LET newState == IF result # Undefined THEN result ELSE currentState
    IN /\ previousState' = newState
       /\ currentState' = newState
       /\ errorCalls' = <<>>
       /\ diagnostics' = <<>>
       /\ MoveToNextStage(newState)

\* updateUI is notified with the state the stage function was given.
StageReturnedNotifiesOld(result) ==
    /\ previousState' = currentState
    /\ currentState' = IF result # Undefined THEN result ELSE currentState
    /\ errorCalls' = <<>>
    /\ diagnostics' = <<>>
    /\ MoveToNextStage(currentState)

\* The stage function returned result: record the previous state, take the
\* result as the state unless it is undefined, and move on.
StageReturned(result) ==
    LET newState == IF result # Undefined THEN result ELSE currentState
    IN /\ previousState' = currentState
       /\ currentState' = newState
       /\ errorCalls' = <<>>
       /\ diagnostics' = <<>>
       /\ MoveToNextStage(newState)

\* The body of nextStage().
nextStage ==
    LET currentStage == getCurrentStage
        fn == StageFunction(currentStage)
    IN /\ ~BeyondMaxCount
       /\ IF fn # "undefined"
          THEN LET r == CallStageFunction(fn, currentState)
               IN /\ handlerCalls' = <<[stage |-> currentStage,
                                        state |-> currentState]>>
                  /\ lastHandlerInput' = currentState
                  /\ lastReturnedInput' = IF r.threw
                                          THEN lastReturnedInput
                                          ELSE currentState
                  /\ IF r.threw
                     THEN StageFailed(currentStage, r.error)
                     ELSE StageReturned(r.value)
          ELSE /\ handlerCalls' = <<>>
               /\ errorCalls' = <<>>
               /\ diagnostics' = <<>>
               /\ UNCHANGED <<currentState, previousState, handlerHistory>>
               /\ MoveToNextStage(currentState)
       /\ UNCHANGED <<pristine, configVars>>

\* The call before this one was the same operation.
Repeats(op) == lastCall.op = op

\* A caller invokes nextStage().
NextStage ==
    /\ nextStage
    /\ lastCall' = [op |-> "nextStage", arg |-> Undefined,
                    repeated |-> Repeats("nextStage")]

\* An active timer fires: its callback invokes nextStage() once.
Tick ==
    \E t \in timers :
        /\ nextStage
        /\ lastCall' = [op |-> "tick", arg |-> TimerId(t.id),
                        repeated |-> Repeats("tick")]

(* ------------------------------ timers -------------------------------- *)

\* clearInterval(handle): the timer with that handle is no longer active.
clearInterval(ts, handle) == {t \in ts : t.id # handle.id}

\* The handle setInterval returns: one that no active timer has.
NewTimerId(ts) ==
    CHOOSE i \in 1..(Cardinality(ts) + 1) :
        /\ \A t \in ts : t.id # i
        /\ \A j \in 1..(i - 1) : \E t \in ts : t.id = j

\* clearInterval is not called: the timer stays active.
TimersAfterStopLeaks(ts, handle) == ts

\* stopCycle(): the active timers after the call.
TimersAfterStop(ts, handle) ==
    IF Truthy(handle) THEN clearInterval(ts, handle) ELSE ts

\* The handle is not set to null after clearInterval.
IntervalIdAfterStopKeeps(handle) == handle

\* stopCycle(): this.intervalId after the call.
IntervalIdAfterStop(handle) == IF Truthy(handle) THEN Null ELSE handle

\* const intervalToUse = interval || this.interval
IntervalToUse(arg, default) == JsOr(arg, default)

\* Only a missing interval is refused, not 0.
RefusesOnlyUndefined(intervalToUse) == intervalToUse.tag = "undefined"

\* if (!intervalToUse) return
RefusesToStart(intervalToUse) == ~Truthy(intervalToUse)

\* The running cycle is not noticed.
AlreadyRunningIgnored(handle) == FALSE

\* if (this.intervalId)
AlreadyRunning(handle) == Truthy(handle)

\* startCycle(arg)
StartCycle ==
    \E arg \in IntervalInputs :
        LET running == AlreadyRunning(intervalId)
            stopped == IF running
                       THEN TimersAfterStop(timers, intervalId)
                       ELSE timers
            handle == IF running
                      THEN IntervalIdAfterStop(intervalId)
                      ELSE intervalId
            intervalToUse == IntervalToUse(arg, interval)
            warned == IF running THEN <<"alreadyRunning">> ELSE <<>>
        IN /\ IF RefusesToStart(intervalToUse)
              THEN /\ timers' = stopped
                   /\ intervalId' = handle
                   /\ diagnostics' = warned \o <<"noInterval">>
              ELSE /\ timers' = stopped \cup
                                  {[id |-> NewTimerId(stopped),
                                    delay |-> intervalToUse.n]}
                   /\ intervalId' = TimerId(NewTimerId(stopped))
                   /\ diagnostics' = warned
           /\ lastCall' = [op |-> "startCycle", arg |-> arg,
                           repeated |-> Repeats("startCycle")]
           /\ uiCalls' = <<>>
           /\ errorCalls' = <<>>
           /\ handlerCalls' = <<>>
           /\ thrown' = Undefined
           /\ UNCHANGED <<currentState, currentStageIndex, previousState>>
           /\ UNCHANGED <<configVars, historyVars>>

\* stopCycle()
StopCycle ==
    /\ timers' = TimersAfterStop(timers, intervalId)
    /\ intervalId' = IntervalIdAfterStop(intervalId)
    /\ lastCall' = [op |-> "stopCycle", arg |-> Undefined,
                    repeated |-> Repeats("stopCycle")]
    /\ uiCalls' = <<>>
    /\ errorCalls' = <<>>
    /\ handlerCalls' = <<>>
    /\ diagnostics' = <<>>
    /\ thrown' = Undefined
    /\ UNCHANGED <<currentState, currentStageIndex, previousState>>
    /\ UNCHANGED <<configVars, historyVars>>

(* ------------------------------ setState, reset ----------------------- *)

\* setState() also records the replaced state as the previous state.
SetStateRecordsPrevious ==
    \E newState \in SetStateInputs :
        /\ currentState' = newState
        /\ previousState' = currentState
        /\ uiCalls' = <<[state |-> newState, stage |-> getCurrentStage]>>
        /\ lastCall' = [op |-> "setState", arg |-> newState,
                        repeated |-> Repeats("setState")]
        /\ errorCalls' = <<>>
        /\ handlerCalls' = <<>>
        /\ diagnostics' = <<>>
        /\ thrown' = Undefined
        /\ pristine' = FALSE
        /\ UNCHANGED <<currentStageIndex, intervalId, timers>>
        /\ UNCHANGED <<configVars, advances, exact, handlerHistory>>

\* setState(newState)
SetState ==
    \E newState \in SetStateInputs :
        /\ currentState' = newState
        /\ uiCalls' = <<[state |-> newState, stage |-> getCurrentStage]>>
        /\ lastCall' = [op |-> "setState", arg |-> newState,
                        repeated |-> Repeats("setState")]
        /\ errorCalls' = <<>>
        /\ handlerCalls' = <<>>
        /\ diagnostics' = <<>>
        /\ thrown' = Undefined
        /\ pristine' = FALSE
        /\ UNCHANGED <<currentStageIndex, previousState, intervalId, timers>>
        /\ UNCHANGED <<configVars, advances, exact, handlerHistory>>

\* this.currentStageIndex = 0
ResetIndex == 0

\* this.currentState = this.initialState
ResetState == initialState

\* The state being replaced is kept as the previous state.
ResetKeepsPrevious(previous, current) == current

\* this.previousState = null
ResetPreviousState(previous, current) == Null

\* reset()
Reset ==
    /\ currentStageIndex' = ResetIndex
    /\ currentState' = ResetState
    /\ previousState' = ResetPreviousState(previousState, currentState)
    /\ timers' = TimersAfterStop(timers, intervalId)
    /\ intervalId' = IntervalIdAfterStop(intervalId)
    /\ uiCalls' = <<[state |-> ResetState, stage |-> StageAt(ResetIndex)]>>
    /\ lastCall' = [op |-> "reset", arg |-> Undefined,
                    repeated |-> Repeats("reset")]
    /\ errorCalls' = <<>>
    /\ handlerCalls' = <<>>
    /\ diagnostics' = <<>>
    /\ thrown' = Undefined
    /\ advances' = 0
    /\ exact' = TRUE
    /\ pristine' = FALSE
    /\ lastReturnedInput' = Null
    /\ UNCHANGED <<configVars, lastHandlerInput>>

(* ------------------------------ specification ------------------------- *)

Next ==
    \/ NextStage
    \/ Tick
    \/ StartCycle
    \/ StopCycle
    \/ SetState
    \/ Reset

Spec == Init /\ [][Next]_vars

\* setInterval keeps firing an active timer: a tick that stays possible
\* eventually happens.
FairSpec == Spec /\ WF_vars(Tick)

\* A method of the engine is called: there is an engine only once the
\* constructor has returned.
EngineStep == constructorError = "none" /\ Next

ConstructorNext == Construct \/ EngineStep

\* The engine from the evaluation of new MICT(argument) on, for valid and
\* invalid arguments.
ConstructorSpec == ConstructorInit /\ [][ConstructorNext]_vars

(* ------------------------------ properties ---------------------------- *)

\* The last call was an advance: nextStage() by a caller or by a timer.
Advanced == lastCall.op \in {"nextStage", "tick"}

\* The diagnostic d was emitted by the last call.
Emitted(d) == \E i \in DOMAIN diagnostics : diagnostics[i] = d

\* C1: currentStageIndex is always an integer with
\* 0 <= currentStageIndex < stages.length, whatever calls were made.
IndexInRange ==
    /\ currentStageIndex \in Int
    /\ 0 <= currentStageIndex
    /\ currentStageIndex < Len(stages)

\* A timer tick has just wrapped the index of a four-stage engine to 0.
IndexInRangeWitness ==
    /\ lastCall.op = "tick"
    /\ Len(stages) = 4
    /\ advances = 4
    /\ currentStageIndex = 0

\* The function of the current stage fails when called on the current state.
CurrentStageFails ==
    /\ StageFunction(getCurrentStage) # "undefined"
    /\ CallStageFunction(StageFunction(getCurrentStage), currentState).threw

\* C2: an advance on a stage whose function fails leaves the index on that
\* stage and invokes updateUI zero times, so a function that fails on every
\* invocation keeps the engine on its stage however many advances are made.
FailureContainment ==
    [][(lastCall'.op \in {"nextStage", "tick"} /\ CurrentStageFails)
       => (/\ currentStageIndex' = currentStageIndex
           /\ uiCalls' = <<>>)]_vars

\* Two advances in a row, the last of them a failed call on Iteration.
FailureContainmentWitness ==
    /\ lastCall.op = "nextStage"
    /\ lastCall.repeated
    /\ getCurrentStage = "Iteration"
    /\ StageFunction(getCurrentStage) = "throwing"
    /\ handlerCalls = <<[stage |-> "Iteration", state |-> currentState]>>
    /\ uiCalls = <<>>

\* C3: after k successful advances from index 0 the index is k mod N; after
\* exactly N of them it is 0 and the current stage is the first stage.
WrapAround ==
    /\ currentStageIndex = advances % Len(stages)
    /\ (exact /\ advances = Len(stages))
           => (currentStageIndex = 0 /\ getCurrentStage = stages[1])

\* Exactly four successful advances of the four MICT stages.
WrapAroundWitness ==
    /\ stages = MICTStages
    /\ exact
    /\ advances = 4
    /\ Advanced
    /\ getCurrentStage = "Mapping"

\* The stage functions of c count: the index p of stages holds increment, the
\* name at p occurs once, and every other stage has no function, identity,
\* checking, or transformation.
CountsAt(c, p) ==
    /\ c.stageFunctions[c.stages[p]] = "increment"
    /\ \A q \in DOMAIN c.stages :
           q # p => /\ c.stages[q] # c.stages[p]
                    /\ c.stageFunctions[c.stages[q]] \in
                           {"undefined", "identity", "checking",
                            "transformation"}

\* transformation leaves the state as is while count is below limit.
OthersLeaveStateAsIs(c, cycles) ==
    (\E q \in DOMAIN c.stages :
         c.stageFunctions[c.stages[q]] = "transformation")
        => cycles < c.initialState.limit

\* C4: the state passed to a stage function is the current state and its
\* result is the state from then on; with one incrementing stage and
\* initialState.count = 0, after N full cycles from index 0 count is N.
StateThreading ==
    /\ (Advanced /\ handlerCalls # <<>> /\ uiCalls # <<>>)
           => /\ handlerCalls[1].state = previousState
              /\ uiCalls[1].state = currentState
    /\ \A p \in DOMAIN stages :
           (/\ pristine
            /\ exact
            /\ CountsAt(config, p)
            /\ config.initialState.count = 0
            /\ currentStageIndex = 0
            /\ OthersLeaveStateAsIs(config, advances \div Len(stages)))
               => currentState.count = advances \div Len(stages)

\* Two full cycles of the four stages, Iteration incrementing: count is 2.
StateThreadingWitness ==
    /\ pristine
    /\ exact
    /\ stages = MICTStages
    /\ CountsAt(config, 2)
    /\ advances = 8
    /\ currentStageIndex = 0
    /\ currentState.tag = "object"
    /\ currentState.count = 2

\* C5: after reset() there is no active timer, the index is 0, currentState
\* is the configured initialState, previousState is absent, and updateUI was
\* invoked once with that state and the first stage.
ResetRestoresInitialState ==
    lastCall.op = "reset"
        => /\ intervalId = Null
           /\ timers = {}
           /\ currentStageIndex = 0
           /\ currentState = config.initialState
           /\ previousState = Null
           /\ uiCalls = <<[state |-> config.initialState, stage |-> stages[1]]>>

\* C6: reset() is idempotent: a reset() right after a reset() leaves the
\* index, currentState, previousState, the timer handle and the active
\* timers as the first one left them.
ResetIdempotent ==
    [][(lastCall.op = "reset" /\ lastCall'.op = "reset")
       => (/\ currentStageIndex' = currentStageIndex
           /\ currentState' = currentState
           /\ previousState' = previousState
           /\ intervalId' = intervalId
           /\ timers' = timers)]_vars

\* Two reset() calls in a row.
ResetIdempotentWitness ==
    /\ lastCall.op = "reset"
    /\ lastCall.repeated
    /\ currentStageIndex = 0
    /\ previousState = Null

\* C7: setState(s) sets currentState to s, invokes updateUI once with s and
\* the current stage name, invokes no stage function, and leaves the index,
\* previousState and the timer handle unchanged.
SetStateFrame ==
    [][lastCall'.op = "setState"
       => (/\ currentState' = lastCall'.arg
           /\ uiCalls' = <<[state |-> lastCall'.arg,
                            stage |-> stages[currentStageIndex + 1]]>>
           /\ handlerCalls' = <<>>
           /\ currentStageIndex' = currentStageIndex
           /\ previousState' = previousState
           /\ intervalId' = intervalId
           /\ timers' = timers)]_vars

\* setState() on an engine past its first stage, with a previous state
\* recorded and a timer running.
SetStateFrameWitness ==
    /\ lastCall.op = "setState"
    /\ currentState = Obj(1, SmallLimit)
    /\ currentStageIndex = 2
    /\ previousState.tag = "object"
    /\ Truthy(intervalId)
    /\ uiCalls = <<[state |-> Obj(1, SmallLimit), stage |-> "Checking"]>>

\* C8: an advance on a stage with no function leaves currentState and
\* previousState unchanged, moves the index to (index + 1) mod stageCount,
\* and invokes updateUI once with the unchanged state and the new stage.
NoHandlerAdvance ==
    [][(/\ lastCall'.op \in {"nextStage", "tick"}
        /\ StageFunction(getCurrentStage) = "undefined")
       => (/\ currentState' = currentState
           /\ previousState' = previousState
           /\ currentStageIndex' = (currentStageIndex + 1) % Len(stages)
           /\ handlerCalls' = <<>>
           /\ uiCalls' = <<[state |-> currentState,
                            stage |-> stages[((currentStageIndex + 1)
                                               % Len(stages)) + 1]]>>)]_vars

\* An advance from Checking, which has no function, to Transformation, with
\* a previous state on record.
NoHandlerAdvanceWitness ==
    /\ Advanced
    /\ handlerCalls = <<>>
    /\ stages = MICTStages
    /\ StageFunction("Checking") = "undefined"
    /\ currentStageIndex = 3
    /\ previousState.tag = "object"
    /\ uiCalls = <<[state |-> currentState, stage |-> "Transformation"]>>

\* v is a positive number.
Positive(v) == v.tag = "number" /\ v.n > 0

\* C9: every active timer is the one held in intervalId, so at most one is
\* active; after startCycle(b) with b positive exactly one timer is active,
\* with period b, and a tick is one nextStage() call.
SingleTimer ==
    /\ \A t \in timers : intervalId = TimerId(t.id)
    /\ Cardinality(timers) <= 1
    /\ (lastCall.op = "startCycle" /\ Positive(lastCall.arg))
           => /\ Truthy(intervalId)
              /\ timers = {[id |-> intervalId.id, delay |-> lastCall.arg.n]}
    /\ lastCall.op = "tick" => Len(handlerCalls) <= 1 /\ Len(uiCalls) <= 1

\* startCycle(1000) and then startCycle(500): one timer, of period 500.
SingleTimerWitness ==
    /\ lastCall.op = "startCycle"
    /\ lastCall.repeated
    /\ lastCall.arg = Num(500)
    /\ Emitted("alreadyRunning")
    /\ Cardinality(timers) = 1
    /\ \A t \in timers : t.delay = 500

\* C10 as stated: startCycle() starts no timer when neither the argument nor
\* the configured interval is a positive number.
RefusesNonPositive ==
    (/\ lastCall.op = "startCycle"
     /\ ~Positive(lastCall.arg)
     /\ ~Positive(config.interval))
        => (intervalId = Null /\ timers = {})

\* v is absent, null or zero.
NotSet(v) ==
    \/ v.tag \in {"undefined", "null"}
    \/ (v.tag = "number" /\ v.n = 0)

\* C10, amended: startCycle() starts no timer when the argument and the
\* configured interval are each absent, null or zero; the refusal is
\* reported and no timer is left to tick.
RefusesUnsetInterval ==
    (/\ lastCall.op = "startCycle"
     /\ NotSet(lastCall.arg)
     /\ NotSet(config.interval))
        => (intervalId = Null /\ timers = {} /\ Emitted("noInterval"))

\* startCycle(0) on an engine configured with no interval.
RefusesUnsetIntervalWitness ==
    /\ lastCall.op = "startCycle"
    /\ lastCall.arg = Num(0)
    /\ config.interval = Undefined
    /\ intervalId = Null
    /\ timers = {}
    /\ Emitted("noInterval")

\* The error the function of the current stage throws on the current state.
CurrentStageError ==
    CallStageFunction(StageFunction(getCurrentStage), currentState).error

\* C11: a failure of a stage function does not propagate to the caller of
\* nextStage(): the call returns normally, and a configured errorHandler is
\* invoked exactly once with the error, the failing stage and the current
\* state (console.error reports it when none is configured).
ErrorContained ==
    [][(lastCall'.op \in {"nextStage", "tick"} /\ CurrentStageFails)
       => (/\ thrown' = Undefined
           /\ errorHandler
                  => /\ errorCalls' = <<[error |-> CurrentStageError,
                                         stage |-> getCurrentStage,
                                         state |-> currentState]>>
                     /\ diagnostics' = <<>>
           /\ ~errorHandler
                  => /\ errorCalls' = <<>>
                     /\ diagnostics' = <<"stageError">>)]_vars

\* The Iteration function threw and the errorHandler got the error, the
\* stage name and the state.
ErrorContainedWitness ==
    /\ Advanced
    /\ errorHandler
    /\ thrown = Undefined
    /\ errorCalls = <<[error |-> Error("Error"), stage |-> "Iteration",
                       state |-> currentState]>>

\* C12: after stopCycle() no timer is active whatever the state before; a
\* stopCycle() with no active timer throws nothing and changes no runtime
\* field; with no active timer no tick occurs and none becomes active until
\* a startCycle().
StopCycleIdempotent ==
    [][/\ lastCall'.op = "stopCycle"
              => /\ intervalId' = Null
                 /\ timers' = {}
                 /\ thrown' = Undefined
                 /\ currentStageIndex' = currentStageIndex
                 /\ currentState' = currentState
                 /\ previousState' = previousState
       /\ (lastCall'.op = "stopCycle" /\ ~Truthy(intervalId))
              => /\ intervalId' = intervalId
                 /\ timers' = timers
       /\ (timers = {} /\ lastCall'.op # "startCycle")
              => /\ lastCall'.op # "tick"
                 /\ timers' = {}]_vars

\* stopCycle() twice in a row on an engine that timer ticks have advanced.
StopCycleIdempotentWitness ==
    /\ lastCall.op = "stopCycle"
    /\ lastCall.repeated
    /\ intervalId = Null
    /\ timers = {}
    /\ advances > 0

\* The keys of stageFunctions in the fields c.
Keys(c) == {k \in StageNames : c.stageFunctions[k] # "undefined"}

\* The argument is one the configuration rules reject.
InvalidArgument(a) ==
    \/ a.tag # "object"
    \/ ~a.stagesIsArray
    \/ a.fields.stages = <<>>
    \/ a.updateUI # "function"
    \/ \E k \in Keys(a.fields) : \A i \in DOMAIN a.fields.stages :
           a.fields.stages[i] # k
    \/ \E k \in Keys(a.fields) : a.fields.stageFunctions[k] = "notCallable"

\* C13: the constructor throws, and no engine exists, exactly for the
\* arguments that are missing, not an object, have no non-empty stages
\* array, no updateUI function, a stageFunctions key that is no stage or a
\* stageFunctions value that is no function; in a constructed engine every
\* key of stageFunctions is a stage.
ConstructorValidates ==
    constructorError # "pending"
        => /\ InvalidArgument(argument) <=> constructorError # "none"
           /\ constructorError # "none"
                  => /\ NoEngine
                     /\ thrown = Error(constructorError)
                     /\ lastCall.op = "constructor"
           /\ constructorError = "none"
                  => \A k \in StageNames :
                         StageFunction(k) # "undefined"
                             => \E i \in DOMAIN stages : stages[i] = k

\* The constructor rejected a stageFunctions key that is not a stage.
ConstructorValidatesWitness ==
    /\ constructorError = "Invalid stage name in stageFunctions"
    /\ argument.tag = "object"
    /\ argument.fields.stages = <<"Mapping">>
    /\ NoEngine

\* C14: an advance on a stage whose function is async does not move the
\* index and does not invoke updateUI while the function's result is
\* outstanding, and the state it stores is the completed result, not the
\* Promise.
AwaitsAsyncHandler ==
    [][(/\ lastCall'.op \in {"nextStage", "tick"}
        /\ StageFunction(getCurrentStage) = "fetching")
       => (\/ (currentStageIndex' = currentStageIndex /\ uiCalls' = <<>>)
           \/ /\ currentState'.tag # "promise"
              /\ currentState' = fetching(currentState).value.resolves)]_vars

\* C15: whenever an advance invokes updateUI, the index has already moved
\* to the next stage and the arguments are the state the engine holds after
\* the call and the name of the stage at the new index.
ObserverSeesAdvancedStage ==
    [][(lastCall'.op \in {"nextStage", "tick"} /\ uiCalls' # <<>>)
       => (/\ currentStageIndex' = (currentStageIndex + 1) % Len(stages)
           /\ uiCalls' = <<[state |-> currentState',
                            stage |-> stages[currentStageIndex' + 1]]>>)]_vars

\* The Iteration function replaced the state: updateUI got the new state
\* and the name Checking.
ObserverSeesAdvancedStageWitness ==
    /\ Advanced
    /\ handlerCalls # <<>>
    /\ handlerCalls[1].stage = "Iteration"
    /\ currentState # previousState
    /\ uiCalls = <<[state |-> currentState, stage |-> "Checking"]>>

\* C16 as stated: getPreviousState() is the value currentState had at the
\* start of the stage function executed last (absent while none has been
\* executed).
PreviousIsLastHandlerInput == getPreviousState = lastHandlerInput

\* C16, amended: getPreviousState() is the value currentState had at the
\* start of the last stage function that returned, with or without a value,
\* since construction or the last reset(), and null while there is none;
\* failed advances, advances of stages with no function and setState() leave
\* it as it is.
PreviousIsLastReturnedInput == getPreviousState = lastReturnedInput

\* The Iteration function returned no value: the state is unchanged and is
\* also the previous state.
PreviousIsLastReturnedInputWitness ==
    /\ Advanced
    /\ StageFunction("Iteration") = "observing"
    /\ handlerCalls = <<[stage |-> "Iteration", state |-> currentState]>>
    /\ uiCalls # <<>>
    /\ currentState = Obj(1, ExampleLimit)
    /\ getPreviousState = currentState

\* The last call was a timer tick whose stage function threw.
TickFailed ==
    /\ lastCall.op = "tick"
    /\ handlerCalls # <<>>
    /\ uiCalls = <<>>

\* C17: a tick whose stage function fails leaves the timer and its handle
\* as they are and the engine on the same stage, so the next tick calls the
\* function of that stage again; a tick whose stage function returns moves
\* the engine on.
SchedulerSurvivesFailure ==
    [][/\ (lastCall'.op = "tick" /\ CurrentStageFails)
              => /\ intervalId' = intervalId
                 /\ timers' = timers
                 /\ timers' # {}
                 /\ currentStageIndex' = currentStageIndex
       /\ (TickFailed /\ lastCall'.op = "tick")
              => /\ handlerCalls' # <<>>
                 /\ handlerCalls'[1].stage = handlerCalls[1].stage
       /\ (lastCall'.op = "tick" /\ ~CurrentStageFails)
              => currentStageIndex' = (currentStageIndex + 1) % Len(stages)
      ]_vars

\* Two ticks in a row, the last one a call of the Iteration function that
\* failed on an undefined state: the timer is still running.
SchedulerSurvivesFailureWitness ==
    /\ lastCall.op = "tick"
    /\ lastCall.repeated
    /\ Truthy(intervalId)
    /\ timers # {}
    /\ StageFunction("Iteration") = "increment"
    /\ handlerCalls # <<>>
    /\ handlerCalls[1].stage = "Iteration"
    /\ handlerCalls[1].state = Undefined
    /\ uiCalls = <<>>

\* C19: an advance whose stage function throws changes no runtime field:
\* currentState, previousState, the index and the timer handle keep their
\* values.
FailedAdvanceChangesNothing ==
    [][(lastCall'.op \in {"nextStage", "tick"} /\ CurrentStageFails)
       => (/\ currentState' = currentState
           /\ previousState' = previousState
           /\ currentStageIndex' = currentStageIndex
           /\ intervalId' = intervalId
           /\ timers' = timers)]_vars

\* A failed advance on an engine whose previous state differs from its
\* current state.
FailedAdvanceChangesNothingWitness ==
    /\ Advanced
    /\ handlerCalls # <<>>
    /\ uiCalls = <<>>
    /\ handlerCalls[1].state = currentState
    /\ previousState.tag = "object"
    /\ previousState # currentState

\* C20: startCycle() with no argument or 0, on an engine configured with no
\* interval or 0, while a timer is active: the timer is cancelled and the
\* start refused, so no timer is active afterwards; the index, currentState
\* and previousState are unchanged.
RefusedStartStopsCycle ==
    [][(/\ lastCall'.op = "startCycle"
        /\ NotSet(lastCall'.arg)
        /\ NotSet(config.interval)
        /\ Truthy(intervalId))
       => (/\ intervalId' = Null
           /\ timers' = {}
           /\ diagnostics' = <<"alreadyRunning", "noInterval">>
           /\ currentStageIndex' = currentStageIndex
           /\ currentState' = currentState
           /\ previousState' = previousState)]_vars

\* startCycle() with no argument was refused on an engine whose timer had
\* been ticking.
RefusedStartStopsCycleWitness ==
    /\ lastCall.op = "startCycle"
    /\ lastCall.arg = Undefined
    /\ NotSet(config.interval)
    /\ diagnostics = <<"alreadyRunning", "noInterval">>
    /\ intervalId = Null
    /\ timers = {}
    /\ advances > 0

\* The positions of a stage sequence; no configuration has more stages than
\* the four MICT stages.
StagePositions == 0..(Len(MICTStages) - 1)

\* From some point on a timer is active, no stage function fails and no
\* advance is held back.
CycleKeepsRunning ==
    <>[](timers # {} /\ ~CurrentStageFails /\ ~BeyondMaxCount)

\* C18: the index changes only to the next position, wrapping to 0 (or to 0
\* by reset()), and while a timer stays active and no stage function fails
\* every position of the sequence is the current one infinitely often.
CycleHasNoTerminalState ==
    /\ [][currentStageIndex' # currentStageIndex
              => \/ currentStageIndex' = (currentStageIndex + 1) % Len(stages)
                 \/ lastCall'.op = "reset"]_vars
    /\ \A i \in StagePositions :
           CycleKeepsRunning
               => []<>(i < Len(stages) => currentStageIndex = i)

\* Ticks have taken the three-stage sequence with a repeated name around
\* more than MaxAdvances times and the timer is still active.
CycleHasNoTerminalStateWitness ==
    /\ lastCall.op = "tick"
    /\ lastCall.repeated
    /\ ~exact
    /\ timers # {}
    /\ stages = <<"Mapping", "Iteration", "Mapping">>
    /\ currentStageIndex = 0

====
